---- MODULE Spec2Model ----
(***************************************************************************)
(* Model of the RustQuant stochastic-process simulation core:              *)
(*   - process.rs: Trajectories, StochasticScheme,                         *)
(*     StochasticVolatilityProcess::euler_maruyama (two-factor engine),    *)
(*     StochasticProcessConfig, StochasticProcess::generate;               *)
(*   - the concrete models (brownian_motion.rs, ho_lee.rs,                 *)
(*     extended_vasicek.rs, fractional_ornstein_uhlenbeck.rs).             *)
(*                                                                         *)
(* f64 values are modelled as exact rationals extended with the IEEE       *)
(* specials NaN, +Inf and -Inf (rounding is not modelled).                 *)
(***************************************************************************)
EXTENDS Integers, Sequences, FiniteSets, TLC

\* ------------------------------------------------------------------------
\* Bounds of the model
\* ------------------------------------------------------------------------
MaxSteps == 2

MaxPaths == 2

\* ------------------------------------------------------------------------
\* f64 arithmetic: a value is [k, n, d] with k in {"fin","nan","inf","ninf"};
\* a finite value is the normalised rational n/d (d > 0, gcd(n, d) = 1).
\* ------------------------------------------------------------------------
Abs(i) == IF i < 0 THEN -i ELSE i

\* In the operators on numbers below, an operand is bound as the element of
\* a one-element set wherever it is used more than once, so that it is
\* evaluated once.

RECURSIVE Gcd(_, _)
Gcd(a, b) ==
    IF b = 0 THEN a ELSE CHOOSE g \in {Gcd(b, r) : r \in {a % b}} : TRUE

NaN == [k |-> "nan", n |-> 0, d |-> 1]

PosInf == [k |-> "inf", n |-> 0, d |-> 1]

NegInf == [k |-> "ninf", n |-> 0, d |-> 1]

Fin(n, d) ==
    LET Lowest(p, q) ==
            LET s == IF q < 0 THEN -1 ELSE 1
                g == Gcd(Abs(p), Abs(q))
            IN  [k |-> "fin", n |-> (s * p) \div g, d |-> (s * q) \div g]
    IN  CHOOSE r \in {Lowest(p, q) : p \in {n}, q \in {d}} : TRUE

F(i) == Fin(i, 1)

IsFin(a) == a.k = "fin"

IsNaN(a) == a.k = "nan"

Sign(a) ==
    CASE a.k = "inf" -> 1
      [] a.k = "ninf" -> -1
      [] a.k = "fin" -> (IF a.n > 0 THEN 1 ELSE IF a.n < 0 THEN -1 ELSE 0)
      [] OTHER -> 0

Signed(s) == IF s > 0 THEN PosInf ELSE NegInf

FNeg(a) ==
    CASE a.k = "fin" -> Fin(-a.n, a.d)
      [] a.k = "inf" -> NegInf
      [] a.k = "ninf" -> PosInf
      [] OTHER -> NaN

FAdd(p, q) ==
    LET Sum(a, b) ==
            CASE IsNaN(a) \/ IsNaN(b) -> NaN
              [] IsFin(a) /\ IsFin(b) ->
                    LET g == Gcd(a.d, b.d)
                    IN  Fin(a.n * (b.d \div g) + b.n * (a.d \div g), (a.d \div g) * b.d)
              [] IsFin(a) -> b
              [] IsFin(b) -> a
              [] OTHER -> IF a.k = b.k THEN a ELSE NaN
    IN  CHOOSE r \in {Sum(a, b) : a \in {p}, b \in {q}} : TRUE

FSub(a, b) == FAdd(a, FNeg(b))

FMul(p, q) ==
    LET Product(a, b) ==
            CASE IsNaN(a) \/ IsNaN(b) -> NaN
              [] IsFin(a) /\ IsFin(b) ->
                    LET g == Gcd(Abs(a.n), b.d)
                        h == Gcd(Abs(b.n), a.d)
                    IN  Fin((a.n \div g) * (b.n \div h), (a.d \div h) * (b.d \div g))
              [] OTHER -> IF Sign(a) * Sign(b) = 0 THEN NaN ELSE Signed(Sign(a) * Sign(b))
    IN  CHOOSE r \in {Product(a, b) : a \in {p}, b \in {q}} : TRUE

FDiv(p, q) ==
    LET Quotient(a, b) ==
            CASE IsNaN(a) \/ IsNaN(b) -> NaN
              [] IsFin(a) /\ IsFin(b) ->
                    IF b.n # 0 THEN Fin(a.n * b.d, a.d * b.n)
                    ELSE IF a.n = 0 THEN NaN ELSE Signed(Sign(a))
              [] IsFin(a) -> F(0)
              [] IsFin(b) -> Signed(Sign(a) * (IF Sign(b) < 0 THEN -1 ELSE 1))
              [] OTHER -> NaN
    IN  CHOOSE r \in {Quotient(a, b) : a \in {p}, b \in {q}} : TRUE

\* The root of a perfect square; the states a diffusion is called with are
\* chosen so that every root taken is exact.
Isqrt(n) == CHOOSE r \in 0..n : r * r <= n /\ (r + 1) * (r + 1) > n

\* f64::sqrt: NaN for a negative or NaN operand, +inf for +inf.
FSqrt(p) ==
    LET Root(a) ==
            CASE a.k = "inf" -> PosInf
              [] a.k = "fin" /\ a.n >= 0 -> Fin(Isqrt(a.n), Isqrt(a.d))
              [] OTHER -> NaN
    IN  CHOOSE r \in {Root(a) : a \in {p}} : TRUE

\* IEEE comparisons: every comparison with a NaN operand is false.
FEq(p, q) == \E a \in {p}, b \in {q} : ~IsNaN(a) /\ ~IsNaN(b) /\ a = b

FLt(p, q) ==
    \E a \in {p}, b \in {q} :
        CASE IsNaN(a) \/ IsNaN(b) -> FALSE
          [] IsFin(a) /\ IsFin(b) -> a.n * b.d < b.n * a.d
          [] OTHER -> (a.k = "ninf" /\ b.k # "ninf") \/ (b.k = "inf" /\ a.k # "inf")

FLe(p, q) == \E a \in {p}, b \in {q} : FLt(a, b) \/ FEq(a, b)

FGe(a, b) == FLe(b, a)

\* ------------------------------------------------------------------------
\* Model parameters and the concrete single-factor models
\* ------------------------------------------------------------------------
\* A ModelParameter is a constant or a function of time; here the affine
\* function t |-> k0 + k1 * t (k1 = 0 is the constant case).
Param(k0, k1) == [k0 |-> k0, k1 |-> k1]

Const(c) == Param(c, 0)

ParamAt(p, t) == FAdd(F(p.k0), FMul(F(p.k1), t))

\* The result of a call that may panic: ok = FALSE is the panic.
Ok(v) == [ok |-> TRUE, v |-> v]

Panic == [ok |-> FALSE, v |-> NaN]

Model(kind, mu, sigma, theta, alpha) ==
    [kind |-> kind, mu |-> mu, sigma |-> sigma, theta |-> theta, alpha |-> alpha]

BrownianMotion == Model("BrownianMotion", Const(0), Const(0), Const(0), Const(0))

HoLee(sigma, theta) == Model("HoLee", Const(0), sigma, theta, Const(0))

ExtendedVasicek(alpha, sigma, theta) ==
    Model("ExtendedVasicek", Const(0), sigma, theta, alpha)

CoxIngersollRoss(mu, sigma, theta) ==
    Model("CoxIngersollRoss", mu, sigma, theta, Const(0))

BrownianMotion_drift(m, x, t) == Ok(F(0))

BrownianMotion_diffusion(m, x, t) == Ok(F(1))

HoLee_drift(m, x, t) ==
    IF FGe(ParamAt(m.theta, t), F(0)) THEN Ok(ParamAt(m.theta, t)) ELSE Panic

HoLee_diffusion(m, x, t) ==
    IF FGe(ParamAt(m.sigma, t), F(0)) THEN Ok(ParamAt(m.sigma, t)) ELSE Panic

ExtendedVasicek_drift(m, x, t) ==
    Ok(FSub(ParamAt(m.theta, t), FMul(ParamAt(m.alpha, t), x)))

ExtendedVasicek_diffusion(m, x, t) == Ok(ParamAt(m.sigma, t))

CoxIngersollRoss_drift(m, x, t) ==
    Ok(FMul(ParamAt(m.theta, t), FSub(ParamAt(m.mu, t), x)))

CoxIngersollRoss_diffusion(m, x, t) ==
    IF FGe(ParamAt(m.sigma, t), F(0))
    THEN Ok(FMul(ParamAt(m.sigma, t), FSqrt(x)))
    ELSE Panic

\* Trait dispatch of StochasticProcess::drift / diffusion.
drift(m, x, t) ==
    CASE m.kind = "BrownianMotion" -> BrownianMotion_drift(m, x, t)
      [] m.kind = "HoLee" -> HoLee_drift(m, x, t)
      [] m.kind = "ExtendedVasicek" -> ExtendedVasicek_drift(m, x, t)
      [] m.kind = "CoxIngersollRoss" -> CoxIngersollRoss_drift(m, x, t)

diffusion(m, x, t) ==
    CASE m.kind = "BrownianMotion" -> BrownianMotion_diffusion(m, x, t)
      [] m.kind = "HoLee" -> HoLee_diffusion(m, x, t)
      [] m.kind = "ExtendedVasicek" -> ExtendedVasicek_diffusion(m, x, t)
      [] m.kind = "CoxIngersollRoss" -> CoxIngersollRoss_diffusion(m, x, t)

\* ------------------------------------------------------------------------
\* StochasticVolatilityProcess: an implementor supplies the four functions;
\* the implementors explored pair two of the models above.
\* ------------------------------------------------------------------------
drift_1(p, x, t) == drift(p.f1, x, t)

drift_2(p, x, t) == drift(p.f2, x, t)

diffusion_1(p, x, t) == diffusion(p.f1, x, t)

diffusion_2(p, x, t) == diffusion(p.f2, x, t)

VolProcesses ==
    { [f1 |-> BrownianMotion,
       f2 |-> ExtendedVasicek(Const(1), Const(1), Const(0))],
      [f1 |-> ExtendedVasicek(Const(1), Const(2), Const(1)),
       f2 |-> HoLee(Param(1, -2), Const(1))],
      [f1 |-> HoLee(Const(1), Param(1, -2)),
       f2 |-> BrownianMotion] }

InitialValues == {F(1), F(2)}

StartTimes == {F(0), F(2)}

EndTimes == {F(1), F(2)}

Increments == {F(-1), F(1)}

\* The stream of a generator seeded with s, as used for path i: n increments.
StreamOf(s, i, n) ==
    [k \in 1..n |-> IF ((s + i) * k + i) % 2 = 0 THEN F(1) ELSE F(-1)]

\* The seeds a generator may be given from entropy.
EntropySeeds == {0, 3}

\* The increment sequences of length n an entropy-seeded generator may yield:
\* an alternating one and a constant one.
NormalStreams(n) == {StreamOf(e, 1, n) : e \in EntropySeeds}

\* ------------------------------------------------------------------------
\* State
\* ------------------------------------------------------------------------
VARIABLES
    pc,        \* position of the euler_maruyama call
    args,      \* its arguments (self, x_0, y_0, t_0, t_n, n_steps, m_paths, parallel)
    dt,        \* local dt
    times,     \* local times
    x_paths,   \* local x_paths
    y_paths,   \* local y_paths
    gen,       \* per path: position of its path_generator call, loop index t, dW
    result,    \* the returned Trajectories (<<>> while none has been returned)
    config,    \* the StochasticProcessConfig built by new (<<>> while there is none)
    process,   \* the single-factor process handed to generate
    sim,       \* the generate call in progress: position, dt, times, paths, per-path state
    out,       \* the generate calls that have returned, in order: config and Trajectories
    fou,       \* the FractionalOrnsteinUhlenbeck::new call: position, arguments, value
    call       \* a direct call of StochasticProcess::diffusion: position, arguments, value

vars == <<pc, args, dt, times, x_paths, y_paths, gen, result,
          config, process, sim, out, fou, call>>

\* The state of the single-factor engine and of the constructors.
others == <<config, process, sim, out, fou, call>>

\* The state of the two-factor engine.
volatility == <<pc, args, dt, times, x_paths, y_paths, gen, result>>

NoArgs ==
    [self |-> [f1 |-> BrownianMotion, f2 |-> BrownianMotion],
     x_0 |-> F(0), y_0 |-> F(0), t_0 |-> F(0), t_n |-> F(0),
     n_steps |-> 0, m_paths |-> 0, parallel |-> FALSE]

\* (0..=n_steps).map(|t| t_0 + dt * (t as f64)).collect()
TimeGrid(t_0, d, n_steps) ==
    [k \in 1..(n_steps + 1) |-> FAdd(t_0, FMul(d, F(k - 1)))]

\* FilledPaths with one entry per step instead of one per grid point.
FilledPathsPerStep(v, n_steps, m_paths) ==
    [i \in 1..m_paths |-> [k \in 1..n_steps |-> v]]

\* vec![vec![v; n_steps + 1]; m_paths]
FilledPaths(v, n_steps, m_paths) ==
    [i \in 1..m_paths |-> [k \in 1..(n_steps + 1) |-> v]]

Trajectories(ts, ps) == [times |-> ts, paths |-> ps]

NoSim == [pc |-> "idle", dt |-> F(0), times |-> <<>>, paths |-> <<>>, gen |-> <<>>]

NoFou == [pc |-> "start", hurst |-> F(0), value |-> <<>>]

NoCall == [pc |-> "start", self |-> BrownianMotion, x |-> F(0), t |-> F(0),
           value |-> F(0)]

Init ==
    /\ pc = "start"
    /\ args = NoArgs
    /\ dt = F(0)
    /\ times = <<>>
    /\ x_paths = <<>>
    /\ y_paths = <<>>
    /\ gen = <<>>
    /\ result = <<>>
    /\ config = <<>>
    /\ process = BrownianMotion
    /\ sim = NoSim
    /\ out = <<>>
    /\ fou = NoFou
    /\ call = NoCall

\* Nothing has been called yet.
Fresh == pc = "start" /\ config = <<>> /\ fou.pc = "start" /\ call.pc = "start"

\* euler_maruyama up to the dispatch on `parallel`.
Call ==
    /\ Fresh
    /\ \E self \in VolProcesses, x_0 \in InitialValues, y_0 \in {F(2)},
          t_0 \in StartTimes, t_n \in EndTimes,
          n_steps \in 0..MaxSteps, m_paths \in 0..MaxPaths, parallel \in BOOLEAN :
        /\ args' = [self |-> self, x_0 |-> x_0, y_0 |-> y_0, t_0 |-> t_0,
                    t_n |-> t_n, n_steps |-> n_steps, m_paths |-> m_paths,
                    parallel |-> parallel]
        /\ IF FLt(t_0, t_n)
           THEN LET d == FDiv(FSub(t_n, t_0), F(n_steps))
                IN  /\ pc' = "for_each"
                    /\ dt' = d
                    /\ x_paths' = FilledPaths(x_0, n_steps, m_paths)
                    /\ y_paths' = FilledPaths(y_0, n_steps, m_paths)
                    /\ times' = TimeGrid(t_0, d, n_steps)
                    /\ gen' = [i \in 1..m_paths |-> [pc |-> "idle", t |-> 0, dW |-> <<>>]]
           ELSE /\ pc' = "panicked"
                /\ UNCHANGED <<dt, times, x_paths, y_paths, gen>>
    /\ UNCHANGED result
    /\ UNCHANGED others

\* LoopBody with a second increment stream for the volatility factor: the y
\* update takes the element after the one the x update takes.
LoopBodyOwnNoise(self, x_path, y_path, ts, d, dW, t) ==
    LET a1 == drift_1(self, x_path[t + 1], ts[t + 1])
        b1 == diffusion_1(self, x_path[t + 1], ts[t + 1])
        x1 == FAdd(FAdd(x_path[t + 1], FMul(a1.v, d)), FMul(b1.v, dW[t + 1]))
        a2 == drift_2(self, y_path[t + 1], ts[t + 1])
        b2 == diffusion_2(self, y_path[t + 1], ts[t + 1])
        y1 == FAdd(FAdd(y_path[t + 1], FMul(a2.v, d)),
                   FMul(b2.v, dW[((t + 1) % Len(dW)) + 1]))
    IN  IF ~(a1.ok /\ b1.ok)
        THEN [ok |-> FALSE, x_path |-> x_path, y_path |-> y_path]
        ELSE IF ~(a2.ok /\ b2.ok)
        THEN [ok |-> FALSE, x_path |-> [x_path EXCEPT ![t + 2] = x1], y_path |-> y_path]
        ELSE [ok |-> TRUE, x_path |-> [x_path EXCEPT ![t + 2] = x1],
              y_path |-> [y_path EXCEPT ![t + 2] = y1]]

\* LoopBody with the asset drift reading the volatility factor's state.
LoopBodyCoupled(self, x_path, y_path, ts, d, dW, t) ==
    LET a1 == drift_1(self, y_path[t + 1], ts[t + 1])
        b1 == diffusion_1(self, x_path[t + 1], ts[t + 1])
        x1 == FAdd(FAdd(x_path[t + 1], FMul(a1.v, d)), FMul(b1.v, dW[t + 1]))
        a2 == drift_2(self, y_path[t + 1], ts[t + 1])
        b2 == diffusion_2(self, y_path[t + 1], ts[t + 1])
        y1 == FAdd(FAdd(y_path[t + 1], FMul(a2.v, d)), FMul(b2.v, dW[t + 1]))
    IN  IF ~(a1.ok /\ b1.ok)
        THEN [ok |-> FALSE, x_path |-> x_path, y_path |-> y_path]
        ELSE IF ~(a2.ok /\ b2.ok)
        THEN [ok |-> FALSE, x_path |-> [x_path EXCEPT ![t + 2] = x1], y_path |-> y_path]
        ELSE [ok |-> TRUE, x_path |-> [x_path EXCEPT ![t + 2] = x1],
              y_path |-> [y_path EXCEPT ![t + 2] = y1]]

\* LoopBody with the coefficients evaluated at the right end of the step,
\* times[t + 1], instead of the left end.
LoopBodyRightPoint(self, x_path, y_path, ts, d, dW, t) ==
    LET a1 == drift_1(self, x_path[t + 1], ts[t + 2])
        b1 == diffusion_1(self, x_path[t + 1], ts[t + 2])
        x1 == FAdd(FAdd(x_path[t + 1], FMul(a1.v, d)), FMul(b1.v, dW[t + 1]))
        a2 == drift_2(self, y_path[t + 1], ts[t + 2])
        b2 == diffusion_2(self, y_path[t + 1], ts[t + 2])
        y1 == FAdd(FAdd(y_path[t + 1], FMul(a2.v, d)), FMul(b2.v, dW[t + 1]))
    IN  IF ~(a1.ok /\ b1.ok)
        THEN [ok |-> FALSE, x_path |-> x_path, y_path |-> y_path]
        ELSE IF ~(a2.ok /\ b2.ok)
        THEN [ok |-> FALSE, x_path |-> [x_path EXCEPT ![t + 2] = x1], y_path |-> y_path]
        ELSE [ok |-> TRUE, x_path |-> [x_path EXCEPT ![t + 2] = x1],
              y_path |-> [y_path EXCEPT ![t + 2] = y1]]

\* One iteration of the closure's `for t in 0..n_steps` loop on one pair of
\* paths (t is the 0-based loop index).
LoopBody(self, x_path, y_path, ts, d, dW, t) ==
    LET Update(a1, b1, a2, b2) ==
            LET x1 == FAdd(FAdd(x_path[t + 1], FMul(a1.v, d)), FMul(b1.v, dW[t + 1]))
                y1 == FAdd(FAdd(y_path[t + 1], FMul(a2.v, d)), FMul(b2.v, dW[t + 1]))
            IN  IF ~(a1.ok /\ b1.ok)
                THEN [ok |-> FALSE, x_path |-> x_path, y_path |-> y_path]
                ELSE IF ~(a2.ok /\ b2.ok)
                THEN [ok |-> FALSE, x_path |-> [x_path EXCEPT ![t + 2] = x1],
                      y_path |-> y_path]
                ELSE [ok |-> TRUE, x_path |-> [x_path EXCEPT ![t + 2] = x1],
                      y_path |-> [y_path EXCEPT ![t + 2] = y1]]
    IN  CHOOSE r \in {Update(a1, b1, a2, b2) :
                        a1 \in {drift_1(self, x_path[t + 1], ts[t + 1])},
                        b1 \in {diffusion_1(self, x_path[t + 1], ts[t + 1])},
                        a2 \in {drift_2(self, y_path[t + 1], ts[t + 1])},
                        b2 \in {diffusion_2(self, y_path[t + 1], ts[t + 1])}} : TRUE

\* MayRun with a closure that waits for the closures of all other pairs.
MayRunAfterOthers(i) ==
    \A j \in (1..args.m_paths) \ {i} : gen[j].pc = "done"

\* The order in which for_each hands the pairs to path_generator: any order
\* on the rayon pool, index order on the sequential iterator.
MayRun(i) ==
    \/ args.parallel
    \/ \A j \in 1..(i - 1) : gen[j].pc = "done"

\* path_generator starts on pair i: the increments are drawn.
Draw(i) ==
    /\ pc = "for_each"
    /\ gen[i].pc = "idle"
    /\ MayRun(i)
    /\ \E dW \in NormalStreams(args.n_steps) :
        gen' = [gen EXCEPT ![i] = [pc |-> "loop", t |-> 0, dW |-> dW]]
    /\ UNCHANGED <<pc, args, dt, times, x_paths, y_paths, result>>
    /\ UNCHANGED others

\* Step with the paths shared between the closures: the x update of pair i
\* starts from the current value of the neighbouring path.
StepSharedPaths(i) ==
    /\ pc = "for_each"
    /\ gen[i].pc = "loop"
    /\ IF gen[i].t < args.n_steps
       THEN LET o == (i % args.m_paths) + 1
                r == LoopBody(args.self,
                              [x_paths[i] EXCEPT ![gen[i].t + 1] = x_paths[o][gen[i].t + 1]],
                              y_paths[i], times, dt, gen[i].dW, gen[i].t)
            IN  /\ x_paths' = [x_paths EXCEPT ![i] = r.x_path]
                /\ y_paths' = [y_paths EXCEPT ![i] = r.y_path]
                /\ gen' = [gen EXCEPT ![i] =
                             IF r.ok THEN [@ EXCEPT !.t = @ + 1]
                                     ELSE [@ EXCEPT !.pc = "panic"]]
       ELSE /\ gen' = [gen EXCEPT ![i].pc = "done"]
            /\ UNCHANGED <<x_paths, y_paths>>
    /\ UNCHANGED <<pc, args, dt, times, result>>
    /\ UNCHANGED others

\* path_generator on pair i: one loop iteration, or the loop's exit.
Step(i) ==
    /\ pc = "for_each"
    /\ gen[i].pc = "loop"
    /\ IF gen[i].t < args.n_steps
       THEN \E r \in {LoopBody(args.self, x_paths[i], y_paths[i], times, dt,
                                gen[i].dW, gen[i].t)} :
               /\ x_paths' = [x_paths EXCEPT ![i] = r.x_path]
               /\ y_paths' = [y_paths EXCEPT ![i] = r.y_path]
               /\ gen' = [gen EXCEPT ![i] =
                            IF r.ok THEN [@ EXCEPT !.t = @ + 1]
                                    ELSE [@ EXCEPT !.pc = "panic"]]
       ELSE /\ gen' = [gen EXCEPT ![i].pc = "done"]
            /\ UNCHANGED <<x_paths, y_paths>>
    /\ UNCHANGED <<pc, args, dt, times, result>>
    /\ UNCHANGED others

\* Return with the panics of the closures swallowed: the paths are handed
\* back as they stand.
ReturnAfterPanic ==
    /\ pc = "for_each"
    /\ \A i \in 1..args.m_paths : gen[i].pc \in {"done", "panic"}
    /\ result' = <<Trajectories(times, x_paths)>>
    /\ pc' = "returned"
    /\ UNCHANGED <<args, dt, times, x_paths, y_paths, gen>>
    /\ UNCHANGED others

\* for_each is over and the Trajectories value is built.  (x_paths, y_paths
\* and gen keep their last values after the return, as a record of what the
\* call computed; the caller holds `result` only.)
Return ==
    /\ pc = "for_each"
    /\ \A i \in 1..args.m_paths : gen[i].pc = "done"
    /\ result' = <<Trajectories(times, x_paths)>>
    /\ pc' = "returned"
    /\ UNCHANGED <<args, dt, times, x_paths, y_paths, gen>>
    /\ UNCHANGED others

\* A panic inside path_generator leaves euler_maruyama by unwinding, once
\* the closures already running have come to an end.
Unwind ==
    /\ pc = "for_each"
    /\ \E i \in 1..args.m_paths : gen[i].pc = "panic"
    /\ \A i \in 1..args.m_paths : gen[i].pc # "loop"
    /\ pc' = "panicked"
    /\ UNCHANGED <<args, dt, times, x_paths, y_paths, gen, result>>
    /\ UNCHANGED others

\* ------------------------------------------------------------------------
\* StochasticProcessConfig
\* ------------------------------------------------------------------------
Schemes == {"EulerMaruyama", "Milstein", "StrangSplitting"}

\* Option<u64>: <<>> is None, <<s>> is Some(s).
Seeds == {<<>>, <<1>>}

StochasticProcessConfig_new(x_0, t_0, t_n, n_steps, scheme, m_paths, parallel, seed) ==
    [x_0 |-> x_0, t_0 |-> t_0, t_n |-> t_n, scheme |-> scheme, n_steps |-> n_steps,
     m_paths |-> m_paths, parallel |-> parallel, seed |-> seed]

unpack_for_scheme(self, d, cfg) ==
    [x_0 |-> self.x_0, n_steps |-> self.n_steps,
     times |-> TimeGrid(cfg.t_0, d, cfg.n_steps)]

Processes ==
    { HoLee(Param(1, -2), Const(1)),
      ExtendedVasicek(Const(1), Const(1), Const(1)) }

\* The caller builds a process and a configuration.
NewConfig ==
    /\ Fresh
    /\ \E m \in Processes, x_0 \in InitialValues, t_0 \in StartTimes, t_n \in EndTimes,
          n_steps \in 0..MaxSteps, scheme \in Schemes, m_paths \in 0..MaxPaths,
          parallel \in BOOLEAN, seed \in Seeds :
        /\ process' = m
        /\ config' = <<StochasticProcessConfig_new(x_0, t_0, t_n, n_steps, scheme,
                                                   m_paths, parallel, seed)>>
    /\ UNCHANGED <<sim, out, fou, call>>
    /\ UNCHANGED volatility

\* After a seeded run the caller builds the configuration again, with any
\* scheme and either value of `parallel`, to run the same process once more.
NewConfigAgain ==
    /\ sim.pc = "returned"
    /\ Len(out) = 1
    /\ config[1].seed # <<>>
    /\ \E scheme \in Schemes, parallel \in BOOLEAN :
        config' = <<StochasticProcessConfig_new(config[1].x_0, config[1].t_0,
                        config[1].t_n, config[1].n_steps, scheme,
                        config[1].m_paths, parallel, config[1].seed)>>
    /\ sim' = NoSim
    /\ UNCHANGED <<process, out, fou, call>>
    /\ UNCHANGED volatility

\* ------------------------------------------------------------------------
\* simulate_stochatic_process: the single-factor engine behind generate
\* ------------------------------------------------------------------------
\* One step of each discretisation scheme from state x at time t with
\* increment w; the outcome is the next state, or the panic of the model.
EulerMaruyamaStep(m, x, t, d, w) ==
    LET a == drift(m, x, t)
        b == diffusion(m, x, t)
    IN  IF a.ok /\ b.ok
        THEN Ok(FAdd(FAdd(x, FMul(a.v, d)), FMul(b.v, w)))
        ELSE Panic

\* The derivative of the diffusion in the state, estimated by a forward
\* difference of width one.
DiffusionPrime(m, x, t) ==
    LET b0 == diffusion(m, x, t)
        b1 == diffusion(m, FAdd(x, F(1)), t)
    IN  IF b0.ok /\ b1.ok THEN Ok(FSub(b1.v, b0.v)) ELSE Panic

MilsteinStep(m, x, t, d, w) ==
    LET e == EulerMaruyamaStep(m, x, t, d, w)
        b == diffusion(m, x, t)
        bp == DiffusionPrime(m, x, t)
    IN  IF e.ok /\ b.ok /\ bp.ok
        THEN Ok(FAdd(e.v, FMul(FMul(Fin(1, 2), FMul(b.v, bp.v)),
                               FSub(FMul(w, w), d))))
        ELSE Panic

StrangSplittingStep(m, x, t, d, w) ==
    LET h == FMul(d, Fin(1, 2))
        a1 == drift(m, x, t)
        x1 == FAdd(x, FMul(a1.v, h))
        b == diffusion(m, x1, t)
        x2 == FAdd(x1, FMul(b.v, w))
        a2 == drift(m, x2, t)
    IN  IF a1.ok /\ b.ok /\ a2.ok THEN Ok(FAdd(x2, FMul(a2.v, h))) ELSE Panic

SchemeStep(scheme, m, x, t, d, w) ==
    CASE scheme = "EulerMaruyama" -> EulerMaruyamaStep(m, x, t, d, w)
      [] scheme = "Milstein" -> MilsteinStep(m, x, t, d, w)
      [] scheme = "StrangSplitting" -> StrangSplittingStep(m, x, t, d, w)

\* PathStream with one generator shared by the paths: a path gets the
\* stream of its rank in the order the paths were started.
PathStreamShared(s, i, started, n) == StreamOf(s, started + 1, n)

\* The stream of path i, the `started` paths before it having been handed
\* theirs: derived from the seed and the path index.
PathStream(s, i, started, n) == StreamOf(s, i, n)

\* generate: the grid and the paths are set up.
Generate ==
    /\ config # <<>>
    /\ sim.pc = "idle"
    /\ Len(out) < 2
    /\ LET c == config[1]
           d == FDiv(FSub(c.t_n, c.t_0), F(c.n_steps))
           u == unpack_for_scheme(c, d, c)
       IN  sim' = [pc |-> "for_each", dt |-> d, times |-> u.times,
                   paths |-> FilledPaths(u.x_0, u.n_steps, c.m_paths),
                   gen |-> [i \in 1..c.m_paths |->
                               [pc |-> "idle", t |-> 0, dW |-> <<>>]]]
    /\ UNCHANGED <<config, process, out, fou, call>>
    /\ UNCHANGED volatility

SimMayRun(i) ==
    \/ config[1].parallel
    \/ \A j \in 1..(i - 1) : sim.gen[j].pc = "done"

\* The generator of path i starts: it takes its increments, from the seeded
\* stream of the path or else from a generator seeded from entropy.
SimDraw(i) ==
    /\ sim.pc = "for_each"
    /\ sim.gen[i].pc = "idle"
    /\ SimMayRun(i)
    /\ LET n == config[1].n_steps
           started == Cardinality({j \in DOMAIN sim.gen : sim.gen[j].pc # "idle"})
       IN  \E e \in EntropySeeds :
            LET dW == IF config[1].seed # <<>>
                      THEN PathStream(config[1].seed[1], i, started, n)
                      ELSE StreamOf(e, i, n)
            IN  sim' = [sim EXCEPT !.gen[i] = [pc |-> "loop", t |-> 0, dW |-> dW]]
    /\ UNCHANGED <<config, process, out, fou, call>>
    /\ UNCHANGED volatility

\* The generator of path i: one step of the configured scheme, or the end
\* of its loop.
SimStep(i) ==
    /\ sim.pc = "for_each"
    /\ sim.gen[i].pc = "loop"
    /\ LET g == sim.gen[i]
           r == SchemeStep(config[1].scheme, process, sim.paths[i][g.t + 1],
                           sim.times[g.t + 1], sim.dt, g.dW[g.t + 1])
       IN  IF g.t < config[1].n_steps
           THEN IF r.ok
                THEN sim' = [sim EXCEPT !.paths[i][g.t + 2] = r.v,
                                        !.gen[i].t = g.t + 1]
                ELSE sim' = [sim EXCEPT !.gen[i].pc = "panic"]
           ELSE sim' = [sim EXCEPT !.gen[i].pc = "done"]
    /\ UNCHANGED <<config, process, out, fou, call>>
    /\ UNCHANGED volatility

\* generate returns its Trajectories.
SimReturn ==
    /\ sim.pc = "for_each"
    /\ \A i \in DOMAIN sim.gen : sim.gen[i].pc = "done"
    /\ out' = Append(out, [config |-> config[1],
                            value |-> Trajectories(sim.times, sim.paths)])
    /\ sim' = [sim EXCEPT !.pc = "returned"]
    /\ UNCHANGED <<config, process, fou, call>>
    /\ UNCHANGED volatility

\* A panic of the model leaves generate by unwinding.
SimUnwind ==
    /\ sim.pc = "for_each"
    /\ \E i \in DOMAIN sim.gen : sim.gen[i].pc = "panic"
    /\ \A i \in DOMAIN sim.gen : sim.gen[i].pc # "loop"
    /\ sim' = [sim EXCEPT !.pc = "panicked"]
    /\ UNCHANGED <<config, process, out, fou, call>>
    /\ UNCHANGED volatility

\* ------------------------------------------------------------------------
\* FractionalOrnsteinUhlenbeck::new
\* ------------------------------------------------------------------------
Hursts ==
    {F(-1), Fin(-1, 10), F(0), Fin(1, 2), Fin(7, 10), F(1), Fin(11, 10), F(2),
     NaN, PosInf, NegInf}

Methods == {"CHOLESKY", "FFT"}

\* The half-open range lo..hi in place of lo..=hi.
RangeContains(lo, hi, v) == FLe(lo, v) /\ FLt(v, hi)

\* (lo..=hi).contains(&v)
RangeInclusiveContains(lo, hi, v) == FLe(lo, v) /\ FLe(v, hi)

FractionalOrnsteinUhlenbeck_new(mu, sigma, theta, hurst, method) ==
    IF RangeInclusiveContains(F(0), F(1), hurst)
    THEN Ok([mu |-> mu, sigma |-> sigma, theta |-> theta, hurst |-> hurst,
             method |-> method])
    ELSE [ok |-> FALSE, v |-> <<>>]

NewFou ==
    /\ Fresh
    /\ \E mu \in {Const(0), Const(1)}, sigma \in {Const(1), Param(1, -2)},
          theta \in {Const(1), Const(2)}, hurst \in Hursts, method \in Methods :
        LET r == FractionalOrnsteinUhlenbeck_new(mu, sigma, theta, hurst, method)
        IN  fou' = [pc |-> IF r.ok THEN "built" ELSE "panicked",
                    hurst |-> hurst,
                    value |-> IF r.ok THEN <<r.v>> ELSE <<>>]
    /\ UNCHANGED <<config, process, sim, out, call>>
    /\ UNCHANGED volatility

\* ------------------------------------------------------------------------
\* StochasticProcess::diffusion called directly on a model
\* ------------------------------------------------------------------------
\* The models whose diffusion carries the assertion, with a sigma that stays
\* positive and one that turns negative at t = 1.
DiffusionModels ==
    {CoxIngersollRoss(Const(1), Const(2), Const(1)),
     CoxIngersollRoss(Const(1), Param(1, -2), Const(1)),
     HoLee(Const(2), Const(1)),
     HoLee(Param(1, -2), Const(1))}

\* The states the diffusion is called at: perfect squares and negatives.
DiffusionStates == {F(-4), F(-1), F(0), Fin(1, 4), F(1), F(4)}

DiffusionTimes == {F(0), F(1)}

Diffusion ==
    /\ Fresh
    /\ \E self \in DiffusionModels, x \in DiffusionStates, t \in DiffusionTimes :
        LET r == diffusion(self, x, t)
        IN  call' = [pc |-> IF r.ok THEN "returned" ELSE "panicked",
                     self |-> self, x |-> x, t |-> t, value |-> r.v]
    /\ UNCHANGED <<config, process, sim, out, fou>>
    /\ UNCHANGED volatility

Next ==
    \/ Call
    \/ \E i \in 1..args.m_paths : Draw(i)
    \/ \E i \in 1..args.m_paths : Step(i)
    \/ Return
    \/ Unwind
    \/ NewConfig
    \/ NewConfigAgain
    \/ Generate
    \/ \E i \in DOMAIN sim.gen : SimDraw(i)
    \/ \E i \in DOMAIN sim.gen : SimStep(i)
    \/ SimReturn
    \/ SimUnwind
    \/ NewFou
    \/ Diffusion

Spec == Init /\ [][Next]_vars

\* The two-factor engine on its own.
NextVolatility ==
    \/ Call
    \/ \E i \in 1..args.m_paths : Draw(i)
    \/ \E i \in 1..args.m_paths : Step(i)
    \/ Return
    \/ Unwind

\* The call runs on: the calling thread (and each rayon worker) keeps
\* executing its code until the call has returned or unwound.
FairSpec == Init /\ [][NextVolatility]_vars /\ WF_vars(NextVolatility)

\* ------------------------------------------------------------------------
\* Properties of the two-factor engine (Spec)
\* ------------------------------------------------------------------------
Returned == pc = "returned" /\ result # <<>>

\* C1: for every call the engine accepts, the returned times has n_steps + 1
\* entries, times[k] = t_0 + k * dt with dt = (t_n - t_0) / n_steps, is
\* strictly increasing, and starts at t_0 and ends at t_n.
TimesGridExact ==
    Returned =>
        LET ts == result[1].times
            n == args.n_steps
            d == FDiv(FSub(args.t_n, args.t_0), F(n))
        IN  /\ Len(ts) = n + 1
            /\ \A k \in 0..n : FEq(ts[k + 1], FAdd(args.t_0, FMul(F(k), d)))
            /\ \A k \in 1..n : FLt(ts[k], ts[k + 1])
            /\ FEq(ts[1], args.t_0)
            /\ FEq(ts[n + 1], args.t_n)

\* C4: every configuration that reaches a simulation run has n_steps >= 1
\* and m_paths >= 1 (zero steps or zero paths is rejected before the run).
RunHasStepsAndPaths ==
    pc \in {"for_each", "returned"} => args.n_steps >= 1 /\ args.m_paths >= 1

\* The paths of pair i after its first k loop iterations, computed in
\* isolation from x_0, y_0, the grid and the pair's own increments.
RECURSIVE Alone(_, _)
Alone(i, k) ==
    IF k = 0
    THEN [ok |-> TRUE,
          x_path |-> [j \in 1..(args.n_steps + 1) |-> args.x_0],
          y_path |-> [j \in 1..(args.n_steps + 1) |-> args.y_0]]
    ELSE LET q == Alone(i, k - 1)
         IN  LoopBody(args.self, q.x_path, q.y_path, times, dt, gen[i].dW, k - 1)

\* C7: the closures share no mutable state: a step of the closure of pair i
\* changes pair i only and leaves the grid alone, and under every
\* interleaving each pair holds what the closure computes on it alone, so
\* that the parallel result is the serial result path for path.
PathsIndependent ==
    /\ [][\A i \in 1..args.m_paths :
            Step(i) => /\ times' = times
                       /\ \A j \in (1..args.m_paths) \ {i} :
                            x_paths'[j] = x_paths[j] /\ y_paths'[j] = y_paths[j]]_vars
    /\ [](pc \in {"for_each", "returned"} =>
            \A i \in 1..args.m_paths :
                gen[i].pc \in {"loop", "done"} =>
                    /\ x_paths[i] = Alone(i, gen[i].t).x_path
                    /\ y_paths[i] = Alone(i, gen[i].t).y_path)
    /\ [](Returned =>
            \A i \in 1..args.m_paths :
                result[1].paths[i] = Alone(i, args.n_steps).x_path)

\* Two closures of a parallel run are both in the middle of their loops.
PathsIndependentWitness ==
    /\ pc = "for_each"
    /\ args.parallel
    /\ args.m_paths >= 2
    /\ gen[1].pc = "loop" /\ gen[1].t = 1
    /\ gen[2].pc = "loop" /\ gen[2].t = 1
    /\ gen[1].dW # gen[2].dW

\* C8: no partial results: once the generation of any path has failed no
\* Trajectories is returned, and a returned Trajectories has every one of its
\* m_paths paths advanced through all n_steps steps.
NoPartialResults ==
    /\ (\E i \in DOMAIN gen : gen[i].pc = "panic") => result = <<>>
    /\ result # <<>> =>
          /\ Len(result[1].paths) = args.m_paths
          /\ \A i \in 1..args.m_paths : gen[i].pc = "done" /\ gen[i].t = args.n_steps

\* The run has failed at a later step of a path whose earlier steps were
\* taken: advanced values exist and nothing is returned.
NoPartialResultsWitness ==
    /\ pc = "panicked"
    /\ result = <<>>
    /\ \E i \in DOMAIN gen :
        /\ gen[i].pc = "panic"
        /\ gen[i].t >= 1
        /\ x_paths[i][2] # args.x_0

\* C9: one increment sequence of length n_steps is drawn per path, and at
\* every step k both factor updates use its element dW[k].
SharedIncrement ==
    pc \in {"for_each", "returned"} =>
        \A i \in 1..args.m_paths :
            gen[i].pc \in {"loop", "done"} =>
                /\ Len(gen[i].dW) = args.n_steps
                /\ \A k \in 0..(gen[i].t - 1) :
                    LET x == x_paths[i][k + 1]
                        y == y_paths[i][k + 1]
                        t == times[k + 1]
                        w == gen[i].dW[k + 1]
                    IN  /\ x_paths[i][k + 2] =
                             FAdd(FAdd(x, FMul(drift_1(args.self, x, t).v, dt)),
                                  FMul(diffusion_1(args.self, x, t).v, w))
                        /\ y_paths[i][k + 2] =
                             FAdd(FAdd(y, FMul(drift_2(args.self, y, t).v, dt)),
                                  FMul(diffusion_2(args.self, y, t).v, w))

\* A path has taken two steps with different increments, and both factors
\* have a diffusion term.
SharedIncrementWitness ==
    /\ pc = "returned"
    /\ \E i \in 1..args.m_paths :
        /\ gen[i].t >= 2
        /\ gen[i].dW[1] # gen[i].dW[2]
        /\ diffusion_1(args.self, x_paths[i][1], times[1]).v # F(0)
        /\ diffusion_2(args.self, y_paths[i][1], times[1]).v # F(0)

\* C10: the returned Trajectories holds the asset factor's paths in `paths`
\* and carries the volatility factor's computed paths as well.
BothFactorsReturned ==
    Returned =>
        /\ result[1].paths = x_paths
        /\ \E f \in DOMAIN result[1] \ {"times"} : result[1][f] = y_paths

\* ------------------------------------------------------------------------
\* Properties of the single-factor engine and of the constructors
\* ------------------------------------------------------------------------
\* The shape of a Trajectories value: grid length, path count, path lengths.
Shape(tr) ==
    <<Len(tr.times), Len(tr.paths), [i \in DOMAIN tr.paths |-> Len(tr.paths[i])]>>

HasShape(tr, x_0, n_steps, m_paths) ==
    /\ Len(tr.paths) = m_paths
    /\ \A i \in 1..m_paths :
        /\ Len(tr.paths[i]) = n_steps + 1
        /\ FEq(tr.paths[i][1], x_0)

ConfigTimesOrdered ==
    config # <<>> => FLt(config[1].t_0, config[1].t_n)

\* C5: FractionalOrnsteinUhlenbeck::new fails for a Hurst exponent outside
\* [0, 1] and succeeds for every one inside; no value it produces has hurst
\* outside [0, 1].
HurstInUnitInterval ==
    fou.pc # "start" =>
        LET h == fou.hurst
            inside == IsFin(h) /\ 0 <= h.n /\ h.n <= h.d
        IN  /\ fou.pc = "built" <=> inside
            /\ fou.pc = "panicked" <=> ~inside
            /\ fou.value # <<>> <=> inside
            /\ fou.value # <<>> => fou.value[1].hurst = h

\* The constructor was called with H = 1.1 and has panicked.
HurstInUnitIntervalWitness ==
    /\ fou.pc = "panicked"
    /\ fou.hurst = Fin(11, 10)
    /\ fou.value = <<>>

\* C6: with a seed, two runs of generate on the same process and the same
\* seeded configuration return the same value for every path and step,
\* whether each run is serial or parallel and whatever the interleaving.
SeededRunsAgree ==
    ( /\ Len(out) = 2
      /\ out[1].config.seed # <<>>
      /\ out[1].config.seed = out[2].config.seed
      /\ out[1].config.scheme = out[2].config.scheme )
    => out[1].value = out[2].value

\* A serial and a parallel seeded run of one scheme have returned two
\* different paths of at least two steps.
SeededRunsAgreeWitness ==
    /\ Len(out) = 2
    /\ out[1].config.seed # <<>>
    /\ out[1].config.scheme = out[2].config.scheme
    /\ out[1].config.parallel # out[2].config.parallel
    /\ out[1].config.n_steps >= 2
    /\ out[1].config.m_paths >= 2
    /\ out[2].value.paths[1] # out[2].value.paths[2]

\* ------------------------------------------------------------------------
\* Termination of the two-factor engine (FairSpec)
\* ------------------------------------------------------------------------
\* C11: every run terminates: a call that has entered for_each returns or
\* fails, a returned run has taken exactly n_steps update steps on each of the
\* m_paths paths, and in a parallel run no closure waits on another path: a
\* closure that has not started can start and a closure inside its loop can
\* take its next step, whatever the other closures are doing.
RunTerminates ==
    /\ (pc = "for_each") ~>
          (\/ pc = "panicked"
           \/ /\ Returned
              /\ Len(gen) = args.m_paths
              /\ \A i \in 1..args.m_paths : gen[i].t = args.n_steps)
    /\ [](pc = "for_each" =>
            /\ \A i \in 1..args.m_paths : gen[i].t <= args.n_steps
            /\ args.parallel =>
                 \A i \in 1..args.m_paths :
                     /\ gen[i].pc = "idle" => ENABLED Draw(i)
                     /\ gen[i].pc = "loop" => ENABLED Step(i))

\* A parallel run of several paths and several steps has returned.
RunTerminatesWitness ==
    /\ Returned
    /\ args.parallel
    /\ args.m_paths >= 2
    /\ args.n_steps >= 2
    /\ \A i \in 1..args.m_paths : gen[i].t = args.n_steps

\* ------------------------------------------------------------------------
\* The Euler-Maruyama recursion
\* ------------------------------------------------------------------------
\* x[k] of path i as the recursion gives it from x_0, the grid and the
\* increments dW[0..k-1] alone.
RECURSIVE EulerPath(_, _)
EulerPath(i, k) ==
    IF k = 0 THEN args.x_0
    ELSE LET x == EulerPath(i, k - 1)
             t == times[k]
         IN  FAdd(FAdd(x, FMul(drift_1(args.self, x, t).v, dt)),
                  FMul(diffusion_1(args.self, x, t).v, gen[i].dW[k]))

\* C12: every entry of an asset path that the loop has written is the
\* Euler-Maruyama update of the entry before it, with drift and diffusion
\* taken at the left grid point times[k] and the previous state: x[k] is the
\* value the recursion gives from x_0, the grid and dW[0..k-1]; the entries
\* the loop has not reached still hold x_0.
EulerRecursion ==
    pc \in {"for_each", "returned", "panicked"} =>
        \A i \in DOMAIN gen :
            gen[i].pc \in {"loop", "done", "panic"} =>
                /\ \A k \in 0..gen[i].t : x_paths[i][k + 1] = EulerPath(i, k)
                /\ \A k \in (gen[i].t + 2)..args.n_steps :
                       x_paths[i][k + 1] = args.x_0

\* A run of two steps with a time-dependent drift has returned, and the
\* second step moved the path by something other than the first.
EulerRecursionWitness ==
    /\ Returned
    /\ args.n_steps >= 2
    /\ args.m_paths >= 1
    /\ args.self.f1.kind = "HoLee"
    /\ FSub(x_paths[1][3], x_paths[1][2]) # FSub(x_paths[1][2], x_paths[1][1])

\* ------------------------------------------------------------------------
\* Sign of the diffusion
\* ------------------------------------------------------------------------
\* C13: a call of the Cox-Ingersoll-Ross or Ho-Lee diffusion that returns,
\* returns a value >= 0 (never a negative value, never NaN); every other call
\* fails by assertion.
DiffusionNonNegative ==
    call.pc = "returned" => FGe(call.value, F(0))

\* ------------------------------------------------------------------------
\* Coupling of the two factors
\* ------------------------------------------------------------------------
\* Other choices for one factor: the model that supplies its drift and
\* diffusion, and the value of its state.
OtherAssets == {p.f1 : p \in VolProcesses}

OtherVolatilities == {p.f2 : p \in VolProcesses}

OtherValues == {F(0), F(1)}

\* The paths of pair i after its first k loop iterations when the engine is
\* run on the process `self` from y_0, with the increments of pair i.
RECURSIVE AloneWith(_, _, _, _)
AloneWith(self, y_0, i, k) ==
    IF k = 0
    THEN [ok |-> TRUE,
          x_path |-> [j \in 1..(args.n_steps + 1) |-> args.x_0],
          y_path |-> [j \in 1..(args.n_steps + 1) |-> y_0]]
    ELSE LET q == AloneWith(self, y_0, i, k - 1)
         IN  IF q.ok THEN LoopBody(self, q.x_path, q.y_path, times, dt, gen[i].dW, k - 1)
                     ELSE q

\* C14: the factors are coupled only through the shared increment: the x
\* update of a loop iteration is the same whatever the y state and whatever
\* drift_2 and diffusion_2 are, the y update of an iteration that completes is
\* the same whatever the x state, drift_1 and diffusion_1 are (when these let
\* the iteration get to it), and a returned asset path is the path every
\* complete run with the same increments returns under another y_0, drift_2
\* and diffusion_2.
FactorsUncoupled ==
    /\ [][\A i \in DOMAIN gen :
            (pc = "for_each" /\ gen[i].pc = "loop" /\ gen'[i] # gen[i]
                /\ gen[i].t < args.n_steps) =>
                \A v \in OtherValues :
                    LET t == gen[i].t
                    IN  /\ \A f \in OtherVolatilities :
                              LoopBody([f1 |-> args.self.f1, f2 |-> f], x_paths[i],
                                       [y_paths[i] EXCEPT ![t + 1] = v],
                                       times, dt, gen[i].dW, t).x_path = x_paths'[i]
                        /\ gen'[i].t = t + 1 =>
                              \A f \in OtherAssets :
                                  \E r \in {LoopBody([f1 |-> f, f2 |-> args.self.f2],
                                                      [x_paths[i] EXCEPT ![t + 1] = v],
                                                      y_paths[i], times, dt,
                                                      gen[i].dW, t)} :
                                      r.ok => r.y_path = y_paths'[i]]_vars
    /\ [](Returned =>
            \A i \in 1..args.m_paths :
                \A f \in OtherVolatilities, v \in OtherValues :
                    \E q \in {AloneWith([f1 |-> args.self.f1, f2 |-> f], v, i,
                                         args.n_steps)} :
                        q.ok => q.x_path = result[1].paths[i])

\* A run whose asset drift depends on the state has returned after two
\* steps, and another volatility factor from another y_0 completes as well.
FactorsUncoupledWitness ==
    /\ Returned
    /\ args.n_steps >= 2
    /\ args.m_paths >= 1
    /\ args.self.f1.kind = "ExtendedVasicek"
    /\ y_paths[1][3] # y_paths[1][1]
    /\ \E f \in OtherVolatilities \ {args.self.f2}, v \in OtherValues \ {args.y_0} :
          LET q == AloneWith([f1 |-> args.self.f1, f2 |-> f], v, 1, args.n_steps)
          IN  q.ok /\ q.y_path # y_paths[1]

====
